---- MODULE Spec2Model ----
(***************************************************************************)
(* jello 0.3.1 (src/jello/cli.py): the pipeline                            *)
(*     load_json -> pyquery -> normalize -> print_json                     *)
(* run by main() on one piped input.  Text is a sequence of one-character  *)
(* strings; a JSON / Python value is a record [t, v] tagged by its type.   *)
(***************************************************************************)
EXTENDS Integers, Sequences, FiniteSets, TLC

\* ------------------------------------------------------------ characters
NL == "\n"
CR == "\r"
BS == "\\"
DQ == "\""
SQ == "'"
SP == " "
\* U+2063 INVISIBLE SEPARATOR, the character load_json puts in place of \n
SEP == "U+2063"
\* the six characters backslash u 2 0 6 3 (normalize's raw-string pattern, and
\* repr's escape of SEP)
SepEscape == <<BS, "u", "2", "0", "6", "3">>
\* the two characters \n (load_json's and normalize's r'\n')
NlEscape == <<BS, "n">>

Digits == <<"0", "1", "2", "3", "4", "5", "6", "7", "8", "9">>
IsDigit(c) == \E k \in 1..10 : Digits[k] = c
DigitVal(c) == (CHOOSE k \in 1..10 : Digits[k] = c) - 1

RECURSIVE NatText(_)
NatText(n) == IF n < 10 THEN <<Digits[n + 1]>>
              ELSE NatText(n \div 10) \o <<Digits[(n % 10) + 1]>>
\* str(int) / json.dumps(int)
IntText(n) == IF n < 0 THEN <<"-">> \o NatText(0 - n) ELSE NatText(n)

\* ------------------------------------------------------------ str methods
\* str.replace(pat, rep): leftmost, non-overlapping occurrences
RECURSIVE Replace(_, _, _)
Replace(s, pat, rep) ==
    IF Len(s) < Len(pat) THEN s
    ELSE IF SubSeq(s, 1, Len(pat)) = pat
         THEN rep \o Replace(SubSeq(s, Len(pat) + 1, Len(s)), pat, rep)
         ELSE <<s[1]>> \o Replace(Tail(s), pat, rep)

\* str.isspace() on the characters of the model (SEP is not whitespace)
IsSpace(c) == c \in {SP, NL, CR}

RECURSIVE LStrip(_)
LStrip(s) == IF s # <<>> /\ IsSpace(s[1]) THEN LStrip(Tail(s)) ELSE s
RECURSIVE RStrip(_)
RStrip(s) == IF s # <<>> /\ IsSpace(s[Len(s)])
             THEN RStrip(SubSeq(s, 1, Len(s) - 1)) ELSE s
\* str.strip()
Strip(s) == RStrip(LStrip(s))

\* str.splitlines(): breaks at \n, \r and \r\n (not at SEP); no final empty line
RECURSIVE SplitFrom(_, _)
SplitFrom(s, cur) ==
    IF s = <<>> THEN (IF cur = <<>> THEN <<>> ELSE <<cur>>)
    ELSE IF s[1] = CR /\ Len(s) >= 2 /\ s[2] = NL
         THEN <<cur>> \o SplitFrom(SubSeq(s, 3, Len(s)), <<>>)
    ELSE IF s[1] \in {NL, CR}
         THEN <<cur>> \o SplitFrom(Tail(s), <<>>)
    ELSE SplitFrom(Tail(s), Append(cur, s[1]))
SplitLines(s) == SplitFrom(s, <<>>)

Has(s, c) == \E k \in 1..Len(s) : s[k] = c
StartsAt(s, i, w) == i + Len(w) - 1 <= Len(s) /\ SubSeq(s, i, i + Len(w) - 1) = w

\* ------------------------------------------------------------ values
Null == [t |-> "null", v |-> 0]
Bool(b) == [t |-> "bool", v |-> b]
Num(n) == [t |-> "num", v |-> n]
Str(s) == [t |-> "str", v |-> s]
\* list: the sequence of its elements
Arr(a) == [t |-> "arr", v |-> a]
\* dict: the sequence of its <<key, value>> pairs, in insertion order
Obj(m) == [t |-> "obj", v |-> m]

IsContainer(x) == x.t \in {"arr", "obj"}

\* ------------------------------------------------------------ json.loads
Fail == [ok |-> FALSE, v |-> Null, i |-> 0]
Got(x, i) == [ok |-> TRUE, v |-> x, i |-> i]

RECURSIVE SkipWs(_, _)
SkipWs(s, i) == IF i <= Len(s) /\ s[i] \in {SP, NL, CR} THEN SkipWs(s, i + 1) ELSE i

\* the body of a JSON string from position i (after the opening quote), strict
\* mode: a control character is an error, and so is an unknown escape
RECURSIVE JsonString(_, _, _)
JsonString(s, i, acc) ==
    IF i > Len(s) THEN Fail
    ELSE IF s[i] = DQ THEN Got(Str(acc), i + 1)
    ELSE IF s[i] \in {NL, CR} THEN Fail
    ELSE IF s[i] = BS
         THEN IF i + 1 > Len(s) THEN Fail
              ELSE IF s[i + 1] = "n" THEN JsonString(s, i + 2, Append(acc, NL))
              ELSE IF s[i + 1] = "r" THEN JsonString(s, i + 2, Append(acc, CR))
              ELSE IF s[i + 1] \in {BS, DQ, "/"}
                   THEN JsonString(s, i + 2, Append(acc, s[i + 1]))
              ELSE IF StartsAt(s, i, SepEscape)
                   THEN JsonString(s, i + 6, Append(acc, SEP))
              ELSE Fail
    ELSE JsonString(s, i + 1, Append(acc, s[i]))

RECURSIVE JsonDigits(_, _, _)
JsonDigits(s, i, n) ==
    IF i <= Len(s) /\ IsDigit(s[i]) THEN JsonDigits(s, i + 1, 10 * n + DigitVal(s[i]))
    ELSE [n |-> n, i |-> i]

\* -?(0|[1-9][0-9]*): a leading 0 ends the number
JsonNumber(s, i) ==
    LET neg == s[i] = "-"
        j == IF neg THEN i + 1 ELSE i
    IN  IF j > Len(s) \/ ~IsDigit(s[j]) THEN Fail
        ELSE LET d == IF s[j] = "0" THEN [n |-> 0, i |-> j + 1] ELSE JsonDigits(s, j, 0)
             IN  Got(Num(IF neg THEN 0 - d.n ELSE d.n), d.i)

RECURSIVE JsonValue(_, _)
RECURSIVE JsonArray(_, _, _)
RECURSIVE JsonObject(_, _, _)

\* the elements of an array from position i (at an element), acc the ones parsed
JsonArray(s, i, acc) ==
    LET e == JsonValue(s, SkipWs(s, i))
    IN  IF ~e.ok THEN Fail
        ELSE LET j == SkipWs(s, e.i)
             IN  IF j > Len(s) THEN Fail
                 ELSE IF s[j] = "]" THEN Got(Arr(Append(acc, e.v)), j + 1)
                 ELSE IF s[j] = "," THEN JsonArray(s, j + 1, Append(acc, e.v))
                 ELSE Fail

\* a later pair with the same key replaces the earlier one's value
PutKey(m, k, x) ==
    IF \E p \in 1..Len(m) : m[p][1] = k
    THEN [p \in 1..Len(m) |-> IF m[p][1] = k THEN <<k, x>> ELSE m[p]]
    ELSE Append(m, <<k, x>>)

\* the pairs of an object from position i (at a key), acc the ones parsed
JsonObject(s, i, acc) ==
    LET j == SkipWs(s, i)
    IN  IF j > Len(s) \/ s[j] # DQ THEN Fail
        ELSE LET k == JsonString(s, j + 1, <<>>)
             IN  IF ~k.ok THEN Fail
                 ELSE LET c == SkipWs(s, k.i)
                      IN  IF c > Len(s) \/ s[c] # ":" THEN Fail
                          ELSE LET e == JsonValue(s, SkipWs(s, c + 1))
                               IN  IF ~e.ok THEN Fail
                                   ELSE LET d == SkipWs(s, e.i)
                                            m == PutKey(acc, k.v, e.v)
                                        IN  IF d > Len(s) THEN Fail
                                            ELSE IF s[d] = "}" THEN Got(Obj(m), d + 1)
                                            ELSE IF s[d] = "," THEN JsonObject(s, d + 1, m)
                                            ELSE Fail

JsonValue(s, i) ==
    IF i > Len(s) THEN Fail
    ELSE IF s[i] = DQ THEN JsonString(s, i + 1, <<>>)
    ELSE IF s[i] = "[" THEN
         LET j == SkipWs(s, i + 1)
         IN  IF j <= Len(s) /\ s[j] = "]" THEN Got(Arr(<<>>), j + 1)
             ELSE JsonArray(s, j, <<>>)
    ELSE IF s[i] = "{" THEN
         LET j == SkipWs(s, i + 1)
         IN  IF j <= Len(s) /\ s[j] = "}" THEN Got(Obj(<<>>), j + 1)
             ELSE JsonObject(s, j, <<>>)
    ELSE IF StartsAt(s, i, <<"n", "u", "l", "l">>) THEN Got(Null, i + 4)
    ELSE IF StartsAt(s, i, <<"t", "r", "u", "e">>) THEN Got(Bool(TRUE), i + 4)
    ELSE IF StartsAt(s, i, <<"f", "a", "l", "s", "e">>) THEN Got(Bool(FALSE), i + 5)
    ELSE IF s[i] = "-" \/ IsDigit(s[i]) THEN JsonNumber(s, i)
    ELSE Fail

\* json.loads(s): one value, whitespace around it, and nothing else
JsonLoads(s) ==
    LET e == JsonValue(s, SkipWs(s, 1))
    IN  IF e.ok /\ SkipWs(s, e.i) = Len(s) + 1 THEN e ELSE Fail

\* ------------------------------------------------------------ repr, str
\* repr(str): single quotes unless the text has a ' and no "; backslash, the
\* quote in use, line breaks and non-printable characters (SEP) are escaped
ReprQuote(s) == IF Has(s, SQ) /\ ~Has(s, DQ) THEN DQ ELSE SQ
RECURSIVE ReprChars(_, _)
ReprChars(s, q) ==
    IF s = <<>> THEN <<>>
    ELSE (IF s[1] = BS THEN <<BS, BS>>
          ELSE IF s[1] = q THEN <<BS, q>>
          ELSE IF s[1] = NL THEN <<BS, "n">>
          ELSE IF s[1] = CR THEN <<BS, "r">>
          ELSE IF s[1] = SEP THEN SepEscape
          ELSE <<s[1]>>) \o ReprChars(Tail(s), q)
ReprStr(s) == <<ReprQuote(s)>> \o ReprChars(s, ReprQuote(s)) \o <<ReprQuote(s)>>

RECURSIVE PyRepr(_)
RECURSIVE ReprItems(_)
RECURSIVE ReprPairs(_)
\* the elements of a list, joined by ', '
ReprItems(a) ==
    IF a = <<>> THEN <<>>
    ELSE PyRepr(a[1]) \o (IF Len(a) > 1 THEN <<",", SP>> ELSE <<>>) \o ReprItems(Tail(a))
\* the 'key: value' pairs of a dict, joined by ', '
ReprPairs(m) ==
    IF m = <<>> THEN <<>>
    ELSE PyRepr(m[1][1]) \o <<":", SP>> \o PyRepr(m[1][2])
         \o (IF Len(m) > 1 THEN <<",", SP>> ELSE <<>>) \o ReprPairs(Tail(m))
\* repr(x)
PyRepr(x) ==
    CASE x.t = "null" -> <<"N", "o", "n", "e">>
      [] x.t = "bool" -> IF x.v THEN <<"T", "r", "u", "e">> ELSE <<"F", "a", "l", "s", "e">>
      [] x.t = "num" -> IntText(x.v)
      [] x.t = "str" -> ReprStr(x.v)
      [] x.t = "arr" -> <<"[">> \o ReprItems(x.v) \o <<"]">>
      [] x.t = "obj" -> <<"{">> \o ReprPairs(x.v) \o <<"}">>
\* str(x), what print(x) writes before its newline: a str is written as it is
PyStr(x) == IF x.t = "str" THEN x.v ELSE PyRepr(x)

\* ------------------------------------------------------------ ast.literal_eval
\* The expressions read here are the ones print(r) writes for a JSON value and
\* the ones the strings of the model spell: None, True, False, integers, quoted
\* strings, lists, dicts and bare names.  Parsing (compile) either fails with a
\* SyntaxError or gives a tree in which a bare name is a node of type "name";
\* the conversion of the tree then raises ValueError at a name and TypeError at
\* a dict key that is a list or a dict.
Name == [t |-> "name", v |-> 0]
Letters ==
    {"a", "b", "c", "d", "e", "f", "g", "h", "i", "j", "k", "l", "m",
     "n", "o", "p", "q", "r", "s", "t", "u", "v", "w", "x", "y", "z",
     "A", "B", "C", "D", "E", "F", "G", "H", "I", "J", "K", "L", "M",
     "N", "O", "P", "Q", "R", "S", "T", "U", "V", "W", "X", "Y", "Z",
     "_"}
IsIdStart(c) == c \in Letters
IsIdChar(c) == IsIdStart(c) \/ IsDigit(c)

RECURSIVE IdEnd(_, _)
IdEnd(s, i) == IF i <= Len(s) /\ IsIdChar(s[i]) THEN IdEnd(s, i + 1) ELSE i

RECURSIVE SkipSp(_, _)
SkipSp(s, i) == IF i <= Len(s) /\ s[i] = SP THEN SkipSp(s, i + 1) ELSE i

\* the body of a string literal quoted by q, from position i; an unknown escape
\* stays as the backslash and the character
RECURSIVE PyString(_, _, _, _)
PyString(s, i, q, acc) ==
    IF i > Len(s) THEN Fail
    ELSE IF s[i] = q THEN Got(Str(acc), i + 1)
    ELSE IF s[i] \in {NL, CR} THEN Fail
    ELSE IF s[i] = BS
         THEN IF i + 1 > Len(s) THEN Fail
              ELSE IF s[i + 1] = "n" THEN PyString(s, i + 2, q, Append(acc, NL))
              ELSE IF s[i + 1] = "r" THEN PyString(s, i + 2, q, Append(acc, CR))
              ELSE IF s[i + 1] \in {BS, SQ, DQ}
                   THEN PyString(s, i + 2, q, Append(acc, s[i + 1]))
              ELSE IF s[i + 1] = "u"
                   THEN IF StartsAt(s, i, SepEscape)
                        THEN PyString(s, i + 6, q, Append(acc, SEP))
                        ELSE Fail
              ELSE PyString(s, i + 2, q, acc \o <<BS, s[i + 1]>>)
    ELSE PyString(s, i + 1, q, Append(acc, s[i]))

\* a decimal integer: no leading zero unless every digit is 0, no letter after it
PyNumber(s, i) ==
    LET d == JsonDigits(s, i, 0)
    IN  IF d.i = i THEN Fail
        ELSE IF s[i] = "0" /\ d.n # 0 THEN Fail
        ELSE IF d.i <= Len(s) /\ IsIdChar(s[d.i]) THEN Fail
        ELSE Got(Num(d.n), d.i)

RECURSIVE PyValue(_, _)
RECURSIVE PyList(_, _, _)
RECURSIVE PyDict(_, _, _)

\* the elements of a list display from position i; a trailing comma is allowed
PyList(s, i, acc) ==
    LET e == PyValue(s, SkipSp(s, i))
    IN  IF ~e.ok THEN Fail
        ELSE LET j == SkipSp(s, e.i)
             IN  IF j > Len(s) THEN Fail
                 ELSE IF s[j] = "]" THEN Got(Arr(Append(acc, e.v)), j + 1)
                 ELSE IF s[j] = ","
                      THEN LET k == SkipSp(s, j + 1)
                           IN  IF k <= Len(s) /\ s[k] = "]"
                               THEN Got(Arr(Append(acc, e.v)), k + 1)
                               ELSE PyList(s, k, Append(acc, e.v))
                 ELSE Fail

\* the key: value pairs of a dict display from position i, kept as written
PyDict(s, i, acc) ==
    LET k == PyValue(s, SkipSp(s, i))
    IN  IF ~k.ok THEN Fail
        ELSE LET c == SkipSp(s, k.i)
             IN  IF c > Len(s) \/ s[c] # ":" THEN Fail
                 ELSE LET e == PyValue(s, SkipSp(s, c + 1))
                      IN  IF ~e.ok THEN Fail
                          ELSE LET d == SkipSp(s, e.i)
                                   m == Append(acc, <<k.v, e.v>>)
                               IN  IF d > Len(s) THEN Fail
                                   ELSE IF s[d] = "}" THEN Got(Obj(m), d + 1)
                                   ELSE IF s[d] = ","
                                        THEN LET n == SkipSp(s, d + 1)
                                             IN  IF n <= Len(s) /\ s[n] = "}"
                                                 THEN Got(Obj(m), n + 1)
                                                 ELSE PyDict(s, n, m)
                                   ELSE Fail

PyValue(s, i) ==
    IF i > Len(s) THEN Fail
    ELSE IF s[i] \in {SQ, DQ} THEN PyString(s, i + 1, s[i], <<>>)
    ELSE IF s[i] = "[" THEN
         LET j == SkipSp(s, i + 1)
         IN  IF j <= Len(s) /\ s[j] = "]" THEN Got(Arr(<<>>), j + 1)
             ELSE PyList(s, j, <<>>)
    ELSE IF s[i] = "{" THEN
         LET j == SkipSp(s, i + 1)
         IN  IF j <= Len(s) /\ s[j] = "}" THEN Got(Obj(<<>>), j + 1)
             ELSE PyDict(s, j, <<>>)
    ELSE IF s[i] = "-" THEN
         LET n == PyNumber(s, SkipSp(s, i + 1))
         IN  IF n.ok THEN Got(Num(0 - n.v.v), n.i) ELSE Fail
    ELSE IF IsDigit(s[i]) THEN PyNumber(s, i)
    ELSE IF IsIdStart(s[i]) THEN
         LET j == IdEnd(s, i)
             w == SubSeq(s, i, j - 1)
         IN  IF w = <<"N", "o", "n", "e">> THEN Got(Null, j)
             ELSE IF w = <<"T", "r", "u", "e">> THEN Got(Bool(TRUE), j)
             ELSE IF w = <<"F", "a", "l", "s", "e">> THEN Got(Bool(FALSE), j)
             ELSE Got(Name, j)
    ELSE Fail

\* the conversion of a parsed tree: "ok", or the first exception it raises.  A
\* dict converts key, value, then hashes the key, pair by pair.
RECURSIVE Convert(_)
RECURSIVE ConvertAll(_)
RECURSIVE ConvertPairs(_)
ConvertAll(a) ==
    IF a = <<>> THEN "ok"
    ELSE IF Convert(a[1]) # "ok" THEN Convert(a[1]) ELSE ConvertAll(Tail(a))
ConvertPairs(m) ==
    IF m = <<>> THEN "ok"
    ELSE IF Convert(m[1][1]) # "ok" THEN Convert(m[1][1])
    ELSE IF Convert(m[1][2]) # "ok" THEN Convert(m[1][2])
    ELSE IF IsContainer(m[1][1]) THEN "TypeError"
    ELSE ConvertPairs(Tail(m))
Convert(x) ==
    CASE x.t = "name" -> "ValueError"
      [] x.t = "arr" -> ConvertAll(x.v)
      [] x.t = "obj" -> ConvertPairs(x.v)
      [] OTHER -> "ok"

\* the dict a dict display builds: a repeated key keeps its first place and
\* takes the last value
RECURSIVE Built(_)
RECURSIVE BuiltPairs(_, _)
BuiltPairs(m, acc) ==
    IF m = <<>> THEN acc
    ELSE BuiltPairs(Tail(m), PutKey(acc, Built(m[1][1]), Built(m[1][2])))
Built(x) ==
    CASE x.t = "arr" -> Arr([k \in 1..Len(x.v) |-> Built(x.v[k])])
      [] x.t = "obj" -> Obj(BuiltPairs(x.v, <<>>))
      [] OTHER -> x

\* ast.literal_eval(s): [exc, v] with exc "" when it returns v
LiteralEval(s) ==
    LET e == PyValue(s, SkipSp(s, 1))
    IN  IF ~(e.ok /\ SkipSp(s, e.i) = Len(s) + 1)
        THEN [exc |-> "SyntaxError", v |-> Null]
        ELSE IF Convert(e.v) # "ok" THEN [exc |-> Convert(e.v), v |-> Null]
        ELSE [exc |-> "", v |-> Built(e.v)]

\* ------------------------------------------------------------ json.dumps
\* a string with ensure_ascii: ", backslash, line breaks and SEP are escaped
RECURSIVE DumpChars(_)
DumpChars(s) ==
    IF s = <<>> THEN <<>>
    ELSE (IF s[1] = BS THEN <<BS, BS>>
          ELSE IF s[1] = DQ THEN <<BS, DQ>>
          ELSE IF s[1] = NL THEN <<BS, "n">>
          ELSE IF s[1] = CR THEN <<BS, "r">>
          ELSE IF s[1] = SEP THEN SepEscape
          ELSE <<s[1]>>) \o DumpChars(Tail(s))
DumpStr(s) == <<DQ>> \o DumpChars(s) \o <<DQ>>

\* a dict key: a str as it is, None, a bool or an int as its JSON text
DumpKey(k) ==
    CASE k.t = "str" -> DumpStr(k.v)
      [] k.t = "null" -> DumpStr(<<"n", "u", "l", "l">>)
      [] k.t = "bool" -> DumpStr(IF k.v THEN <<"t", "r", "u", "e">>
                                 ELSE <<"f", "a", "l", "s", "e">>)
      [] k.t = "num" -> DumpStr(IntText(k.v))

RECURSIVE Spaces(_)
Spaces(n) == IF n = 0 THEN <<>> ELSE <<SP>> \o Spaces(n - 1)

\* json.dumps(x) when indent = 0 and json.dumps(x, indent=indent) otherwise, for
\* a value at nesting depth lvl
RECURSIVE Dump(_, _, _)
RECURSIVE DumpItems(_, _, _)
RECURSIVE DumpPairs(_, _, _)
ItemSep(indent, lvl) ==
    IF indent = 0 THEN <<",", SP>> ELSE <<",", NL>> \o Spaces(indent * lvl)
DumpItems(a, indent, lvl) ==
    IF a = <<>> THEN <<>>
    ELSE Dump(a[1], indent, lvl)
         \o (IF Len(a) > 1 THEN ItemSep(indent, lvl) ELSE <<>>)
         \o DumpItems(Tail(a), indent, lvl)
DumpPairs(m, indent, lvl) ==
    IF m = <<>> THEN <<>>
    ELSE DumpKey(m[1][1]) \o <<":", SP>> \o Dump(m[1][2], indent, lvl)
         \o (IF Len(m) > 1 THEN ItemSep(indent, lvl) ELSE <<>>)
         \o DumpPairs(Tail(m), indent, lvl)
Open(indent, lvl) == IF indent = 0 THEN <<>> ELSE <<NL>> \o Spaces(indent * lvl)
Dump(x, indent, lvl) ==
    CASE x.t = "null" -> <<"n", "u", "l", "l">>
      [] x.t = "bool" -> IF x.v THEN <<"t", "r", "u", "e">> ELSE <<"f", "a", "l", "s", "e">>
      [] x.t = "num" -> IntText(x.v)
      [] x.t = "str" -> DumpStr(x.v)
      [] x.t = "arr" ->
           IF x.v = <<>> THEN <<"[", "]">>
           ELSE <<"[">> \o Open(indent, lvl + 1) \o DumpItems(x.v, indent, lvl + 1)
                \o Open(indent, lvl) \o <<"]">>
      [] x.t = "obj" ->
           IF x.v = <<>> THEN <<"{", "}">>
           ELSE <<"{">> \o Open(indent, lvl + 1) \o DumpPairs(x.v, indent, lvl + 1)
                \o Open(indent, lvl) \o <<"}">>
JsonDumps(x, indent) == Dump(x, indent, 0)

\* ------------------------------------------------------------ the query
\* The query text is run by exec() after 'r = None' and before 'print(r)'.  The
\* queries of the model, with _ the loaded data:
\*   id      r = _                       (main's default)
\*   key     r = _[k]      k a str
\*   index   r = _[n]      n an int >= 0
\*   add     r = _ + 1
\*   name    r = undefined_name
\*   syntax  r =
\* and with pre the statement print('hi') in front of it.
Query(op, k, n, pre) == [op |-> op, k |-> k, n |-> n, pre |-> pre]

Raised(exc, arg) == [exc |-> exc, r |-> Null, arg |-> arg]
Returned(x) == [exc |-> "", r |-> x, arg |-> <<>>]

\* a lookup that gives None for an absent key, as dict.get(k) does
LookupOrNone(m, k) ==
    IF \E p \in 1..Len(m) : m[p][1] = k
    THEN Returned(m[CHOOSE p \in 1..Len(m) : m[p][1] = k][2])
    ELSE Returned(Null)

Lookup(m, k) ==
    IF \E p \in 1..Len(m) : m[p][1] = k
    THEN Returned(m[CHOOSE p \in 1..Len(m) : m[p][1] = k][2])
    ELSE Raised("KeyError", PyRepr(k))

\* what the statement of query q does to r, or the exception it raises, with
\* str(e)'s text for a KeyError (the repr of the key)
Exec(q, d) ==
    CASE q.op = "id" -> Returned(d)
      [] q.op = "key" ->
           IF d.t = "obj" THEN Lookup(d.v, Str(q.k)) ELSE Raised("TypeError", <<>>)
      [] q.op = "index" ->
           CASE d.t = "arr" -> IF q.n < Len(d.v) THEN Returned(d.v[q.n + 1])
                               ELSE Raised("IndexError", <<>>)
             [] d.t = "str" -> IF q.n < Len(d.v) THEN Returned(Str(<<d.v[q.n + 1]>>))
                               ELSE Raised("IndexError", <<>>)
             [] d.t = "obj" -> Lookup(d.v, Num(q.n))
             [] OTHER -> Raised("TypeError", <<>>)
      [] q.op = "add" ->
           CASE d.t = "num" -> Returned(Num(d.v + 1))
             [] d.t = "bool" -> Returned(Num(IF d.v THEN 2 ELSE 1))
             [] OTHER -> Raised("TypeError", <<>>)
      [] q.op = "name" -> Raised("NameError", <<>>)
      [] q.op = "syntax" -> Raised("SyntaxError", <<>>)

Hi == <<"h", "i">>
\* what the run of the whole query text has written to f when it ends or raises
Captured(q, d) ==
    IF q.op = "syntax" THEN <<>>
    ELSE (IF q.pre THEN Hi \o <<NL>> ELSE <<>>)
         \o (IF Exec(q, d).exc = "" THEN PyStr(Exec(q, d).r) \o <<NL>> ELSE <<>>)

\* ------------------------------------------------------------ the state
VARIABLES
    piped,                \* the documents the piped text was written from, and how
    stdin,                \* the piped text
    query,                \* the query
    compact, lines, nulls, raw,    \* the options -c -l -n -r
    pc,                   \* the call main() is about to make, or "exit"
    list_dict_data,       \* load_json's result
    raw_response,         \* pyquery's result
    normalized_response,  \* normalize's result
    stdout,               \* the texts printed to stdout, one per print()
    stderr,               \* the messages printed to stderr
    status                \* the exit status once pc = "exit"

vars == <<piped, stdin, query, compact, lines, nulls, raw, pc, list_dict_data,
          raw_response, normalized_response, stdout, stderr, status>>

Message(kind, line, text) == [kind |-> kind, line |-> line, text |-> text]

\* sys.exit(1) after one message on stderr
Die(m) ==
    /\ stderr' = Append(stderr, m)
    /\ status' = 1
    /\ pc' = "exit"

\* ------------------------------------------------------------ the inputs
\* the longest array among the piped documents
MaxLen == 2
\* the most lines of a piped JSON Lines text
MaxLines == 2

StrA == Str(<<"a">>)
StrBar == Str(<<"b", "a", "r">>)
StrNum == Str(<<"1", "2", "3">>)
StrNone == Str(<<"N", "o", "n", "e">>)
StrList == Str(<<"[", "1", "]">>)
StrDict == Str(<<"{", "[", "]", ":", "1", "}">>)
StrEmpty == Str(<<>>)
\* a newline inside a string, in JSON text the escape \n
StrNl == Str(<<"a", NL, "b">>)
\* a backslash and the letter n inside a string, in JSON text \\n
StrBsN == Str(<<"a", BS, "n">>)

KeyX == <<"x">>
KeyY == <<"y">>

Scalars == {Null, Bool(TRUE), Bool(FALSE), Num(0), Num(1), Num(42), StrA, StrBar,
            StrNum, StrNone, StrList, StrDict, StrEmpty, StrNl, StrBsN}
Elems == {Null, Bool(TRUE), Bool(FALSE), Num(0), Num(1), StrA, StrNl}
SeqsUpTo(S, n) == UNION {[1..k -> S] : k \in 0..n}
Arrays == {Arr(a) : a \in SeqsUpTo(Elems, MaxLen)}
Objects == {Obj(<<<<Str(KeyX), x>>>>) : x \in {Num(1), StrNl, StrBar, Null}}
Examples == {Arr(<<StrA, Null, Bool(TRUE), Num(42)>>),
             Obj(<<<<Str(KeyX), Arr(<<Num(1), Num(2), Num(3)>>)>>>>),
             Obj(<<<<Str(KeyX), Num(1)>>, <<Str(KeyY), Arr(<<StrNl>>)>>>>),
             Arr(<<Arr(<<Num(1), StrNl>>), Obj(<<<<Str(KeyX), Null>>>>), Num(42)>>)}
LineDocs == {Num(1), StrNl, Arr(<<Num(1), Num(2)>>), Obj(<<<<Str(KeyX), Num(1)>>>>)}

\* How the piped text is written from its documents:
\*   "compact"  one document on one line
\*   "pretty"   one document, indented over several lines
\*   "lines"    JSON Lines: docs[k] on line k
\*   "blank"    JSON Lines with an empty line after the first line
Piped(style, docs) == [style |-> style, docs |-> docs]
\* the pipes every query is run on
CorePipes ==
    {Piped("compact", <<d>>) : d \in Scalars \cup Objects \cup Examples}
\* the pipes the default query is run on
Pipes ==
    CorePipes
    \cup {Piped("compact", <<d>>) : d \in Arrays}
    \cup {Piped("pretty", <<d>>) : d \in Examples}
    \cup {Piped(st, l) : st \in {"lines", "blank"},
                         l \in SeqsUpTo(LineDocs, MaxLines) \ {<<>>}}
    \cup {Piped("lines", <<>>)}

RECURSIVE JoinLines(_)
JoinLines(l) == IF l = <<>> THEN <<>> ELSE JsonDumps(l[1], 0) \o <<NL>> \o JoinLines(Tail(l))
\* the text on stdin: every line ends with a newline
TextOf(p) ==
    CASE p.style = "compact" -> JsonDumps(p.docs[1], 0) \o <<NL>>
      [] p.style = "pretty" -> JsonDumps(p.docs[1], 2) \o <<NL>>
      [] p.style = "lines" -> JoinLines(p.docs)
      [] p.style = "blank" ->
           JsonDumps(p.docs[1], 0) \o <<NL, NL>> \o JoinLines(Tail(p.docs))

\* main's default query, r = _
IdQuery == Query("id", <<>>, 0, FALSE)
Queries ==
    {IdQuery,
     Query("key", KeyX, 0, FALSE), Query("key", KeyY, 0, FALSE),
     Query("key", KeyY, 0, TRUE),
     Query("index", <<>>, 1, FALSE),
     Query("add", <<>>, 0, FALSE), Query("add", <<>>, 0, TRUE),
     Query("name", <<>>, 0, FALSE), Query("syntax", <<>>, 0, FALSE)}

Inputs == (Pipes \X {IdQuery}) \cup (CorePipes \X Queries)

\* main() up to the call of load_json: piped input, options and query are read
Init ==
    /\ \E i \in Inputs : piped = i[1] /\ query = i[2]
    /\ stdin = TextOf(piped)
    /\ compact \in BOOLEAN
    /\ lines \in BOOLEAN
    /\ nulls \in BOOLEAN
    /\ raw \in BOOLEAN
    /\ pc = "load_json"
    /\ list_dict_data = Null
    /\ raw_response = <<>>
    /\ normalized_response = <<>>
    /\ stdout = <<>>
    /\ stderr = <<>>
    /\ status = 0

\* ------------------------------------------------------------ load_json
\* data.strip().replace(r'\n', SEP)
Escaped(text) == Replace(Strip(text), NlEscape, <<SEP>>)

\* the first line json.loads cannot parse, 0 if there is none
FirstBadLine(ls) ==
    IF \E k \in 1..Len(ls) : ~JsonLoads(ls[k]).ok
    THEN CHOOSE k \in 1..Len(ls) :
            /\ ~JsonLoads(ls[k]).ok
            /\ \A j \in 1..(k - 1) : JsonLoads(ls[j]).ok
    ELSE 0

Preview(line) == SubSeq(line, 1, IF Len(line) < 70 THEN Len(line) ELSE 70)

\* load_json(text): [ok, v] or, when a line cannot be parsed, the line's number
LoadResult(text) ==
    LET data == Escaped(text)
        whole == JsonLoads(data)
        ls == SplitLines(data)
        bad == FirstBadLine(ls)
    IN  IF whole.ok THEN [ok |-> TRUE, v |-> whole.v, line |-> 0, text |-> <<>>]
        ELSE IF bad # 0
             THEN [ok |-> FALSE, v |-> Null, line |-> bad, text |-> Preview(ls[bad])]
             ELSE [ok |-> TRUE, v |-> Arr([k \in 1..Len(ls) |-> JsonLoads(ls[k]).v]),
                   line |-> 0, text |-> <<>>]

LoadJson ==
    /\ pc = "load_json"
    /\ LET res == LoadResult(stdin)
       IN  IF res.ok
           THEN /\ list_dict_data' = res.v
                /\ pc' = "pyquery"
                /\ UNCHANGED <<stderr, status>>
           ELSE /\ Die(Message("JSON Load Exception", res.line, res.text))
                /\ UNCHANGED list_dict_data
    /\ UNCHANGED <<piped, stdin, query, compact, lines, nulls, raw, raw_response,
                   normalized_response, stdout>>

\* ------------------------------------------------------------ pyquery
NoneLine == <<"N", "o", "n", "e", NL>>
\* f.getvalue()[0:-6] once print(exec(...)) has written its None
Cut6(t) == SubSeq(t, 1, Len(t) - 6)

\* the variable output when the try block is left: set on line 143 only, after
\* exec() has returned
OutputAfterTry(q, d) ==
    IF Exec(q, d).exc = ""
    THEN [none |-> FALSE, text |-> Cut6(Captured(q, d) \o NoneLine)]
    ELSE [none |-> TRUE, text |-> <<>>]

PyQuery ==
    /\ pc = "pyquery"
    /\ LET e == Exec(query, list_dict_data)
           output == OutputAfterTry(query, list_dict_data)
       IN  CASE e.exc = "" ->
                  /\ raw_response' = output.text
                  /\ pc' = "normalize"
                  /\ UNCHANGED <<stderr, status>>
             [] e.exc = "KeyError" ->
                  /\ Die(Message("Key does not exist", 0, e.arg))
                  /\ UNCHANGED raw_response
             [] e.exc = "IndexError" ->
                  /\ Die(Message("IndexError", 0, <<>>))
                  /\ UNCHANGED raw_response
             [] e.exc = "SyntaxError" ->
                  /\ Die(Message("SyntaxError", 0, <<>>))
                  /\ UNCHANGED raw_response
             [] e.exc = "TypeError" ->
                  IF output.none
                  THEN /\ raw_response' = <<>>
                       /\ pc' = "normalize"
                       /\ UNCHANGED <<stderr, status>>
                  ELSE /\ Die(Message("TypeError", 0, <<>>))
                       /\ UNCHANGED raw_response
             [] OTHER ->
                  /\ Die(Message("Query Exception", 0, <<>>))
                  /\ UNCHANGED raw_response
    /\ UNCHANGED <<piped, stdin, query, compact, lines, nulls, raw, list_dict_data,
                   normalized_response, stdout>>

\* ------------------------------------------------------------ normalize
\* one entry of data.splitlines(): [exc, v]
Entry(entry, r) ==
    LET lit == LiteralEval(Replace(entry, SepEscape, NlEscape))
    IN  IF lit.exc = "" THEN lit
        ELSE IF lit.exc \in {"ValueError", "SyntaxError"}
             THEN [exc |-> "",
                   v |-> Str(Replace(IF r THEN entry ELSE <<DQ>> \o entry \o <<DQ>>,
                                     SepEscape, NlEscape))]
             ELSE lit

\* normalize(data, raw=r): [ok, v] with v the result list; not ok when an entry
\* raises anything else than ValueError or SyntaxError
Normalized(data, r) ==
    LET es == SplitLines(data)
    IN  [ok |-> \A k \in 1..Len(es) : Entry(es[k], r).exc = "",
         v |-> [k \in 1..Len(es) |-> Entry(es[k], r).v]]

Normalize ==
    /\ pc = "normalize"
    /\ LET res == Normalized(raw_response, raw)
       IN  IF res.ok
           THEN /\ normalized_response' = res.v
                /\ pc' = "print_json"
                /\ UNCHANGED <<stderr, status>>
           ELSE /\ Die(Message("Normalize Exception", 0, raw_response))
                /\ UNCHANGED normalized_response
    /\ UNCHANGED <<piped, stdin, query, compact, lines, nulls, raw, list_dict_data,
                   raw_response, stdout>>

\* ------------------------------------------------------------ print_json
Indent(c) == IF c THEN 0 ELSE 2

\* what iterating data[0] gives: the elements of a list, the keys of a dict
Iter(x) == IF x.t = "arr" THEN x.v ELSE [k \in 1..Len(x.v) |-> x.v[k][1]]

\* lines mode with the booleans found by == instead of is: 1 == True, 0 == False
LineTextByEquality(line, c, n, r) ==
    CASE line.t = "null" -> IF n THEN <<"n", "u", "l", "l">> ELSE <<>>
      [] line \in {Bool(TRUE), Num(1)} -> <<"t", "r", "u", "e">>
      [] line \in {Bool(FALSE), Num(0)} -> <<"f", "a", "l", "s", "e">>
      [] line.t = "str" -> IF r THEN line.v ELSE <<DQ>> \o line.v \o <<DQ>>
      [] OTHER -> JsonDumps(line, Indent(c))

\* the text print_json prints for one element in lines mode
LineText(line, c, n, r) ==
    CASE line.t = "null" -> IF n THEN <<"n", "u", "l", "l">> ELSE <<>>
      [] line = Bool(TRUE) -> <<"t", "r", "u", "e">>
      [] line = Bool(FALSE) -> <<"f", "a", "l", "s", "e">>
      [] line.t = "str" -> IF r THEN line.v ELSE <<DQ>> \o line.v \o <<DQ>>
      [] OTHER -> JsonDumps(line, Indent(c))

\* the texts print_json(data, ...) prints, one per print(), for data not empty
Printed(data, c, n, l, r) ==
    LET x == data[1]
    IN  CASE IsContainer(x) ->
               IF ~l THEN <<JsonDumps(x, Indent(c))>>
               ELSE [k \in 1..Len(Iter(x)) |-> LineText(Iter(x)[k], c, n, r)]
          [] x.t = "null" -> IF n THEN <<<<"n", "u", "l", "l">>>> ELSE <<<<>>>>
          [] x = Bool(TRUE) -> <<<<"t", "r", "u", "e">>>>
          [] x = Bool(FALSE) -> <<<<"f", "a", "l", "s", "e">>>>
          [] x.t = "str" -> IF r THEN <<x.v>> ELSE <<<<DQ>> \o x.v \o <<DQ>>>>
          [] OTHER -> <<>>

\* data[0] of an empty list raises IndexError, which nothing catches: the
\* interpreter prints the traceback to stderr and exits with status 1
PrintJson ==
    /\ pc = "print_json"
    /\ IF normalized_response = <<>>
       THEN /\ Die(Message("Traceback", 0, <<"I", "n", "d", "e", "x", "E", "r", "r", "o", "r">>))
            /\ UNCHANGED stdout
       ELSE /\ stdout' = stdout \o Printed(normalized_response, compact, nulls, lines, raw)
            /\ status' = 0
            /\ pc' = "exit"
            /\ UNCHANGED stderr
    /\ UNCHANGED <<piped, stdin, query, compact, lines, nulls, raw, list_dict_data,
                   raw_response, normalized_response>>

\* ------------------------------------------------------------ main
Next == LoadJson \/ PyQuery \/ Normalize \/ PrintJson

Spec == Init /\ [][Next]_vars

\* ------------------------------------------------------------ the claims
\* the piped text is the JSON text of the one document Doc
OneDoc == piped.style \in {"compact", "pretty"}
Doc == piped.docs[1]
LoadFailed ==
    pc = "exit" /\ stderr # <<>> /\ stderr[1].kind = "JSON Load Exception"
\* pyquery has been called
Queried == pc \notin {"load_json", "pyquery"} /\ ~LoadFailed
Quoted(s) == <<DQ>> \o s \o <<DQ>>

RECURSIVE ContainsNl(_)
ContainsNl(x) ==
    CASE x.t = "str" -> Has(x.v, NL)
      [] x.t = "arr" -> \E k \in 1..Len(x.v) : ContainsNl(x.v[k])
      [] x.t = "obj" -> \E k \in 1..Len(x.v) : ContainsNl(x.v[k][1]) \/ ContainsNl(x.v[k][2])
      [] OTHER -> FALSE

\* C1: load_json applied to the JSON text of a document D returns a value equal
\* to D, also when D has strings with a newline (written \n in the text).
C1_RoundTrip ==
    OneDoc => /\ ~LoadFailed
              /\ pc # "load_json" => list_dict_data = Doc

\* C2: a string with a newline, as the result of the query or nested in it,
\* comes out of load_json, pyquery and normalize with its newline in place and
\* no U+2063 left, raw or not (a top-level string in its quotes when not raw).
C2_Result == Exec(query, Doc).r
C2_Expected ==
    IF C2_Result.t = "str"
    THEN Str(IF raw THEN C2_Result.v ELSE Quoted(C2_Result.v))
    ELSE C2_Result
C2_SentinelSafe ==
    (/\ pc = "print_json" /\ OneDoc /\ ~query.pre
     /\ Exec(query, Doc).exc = "" /\ ContainsNl(C2_Result))
    => normalized_response = <<C2_Expected>>

\* C3: the default query r = _ followed by normalize gives exactly one value,
\* equal to the loaded value in type and content (the string "123" stays the
\* string "123").
C3_Identity ==
    (pc = "print_json" /\ query = IdQuery) => normalized_response = <<list_dict_data>>

\* C4: when the text is not one JSON document, load_json returns the array of
\* the values of its non-empty lines in order; a blank line between two lines
\* is skipped and is no error.  (Stated for lines without a \n escape, whose
\* loading is the matter of C1.)
C4_JsonLines ==
    (/\ piped.style \in {"lines", "blank"} /\ Len(piped.docs) # 1
     /\ ~ContainsNl(Arr(piped.docs)))
    => /\ ~LoadFailed
       /\ pc # "load_json" => list_dict_data = Arr(piped.docs)

\* C5: a query that looks up a key the object does not have ends the run with
\* the message 'Key does not exist' naming the key on stderr, a non-zero exit
\* status and nothing on stdout; it never yields a value.
QueryKey == IF query.op = "key" THEN Str(query.k) ELSE Num(query.n)
LooksUpAbsentKey ==
    /\ query.op \in {"key", "index"}
    /\ list_dict_data.t = "obj"
    /\ \A k \in 1..Len(list_dict_data.v) : list_dict_data.v[k][1] # QueryKey
C5_KeyError ==
    (Queried /\ LooksUpAbsentKey)
    => /\ pc = "exit"
       /\ status # 0
       /\ stdout = <<>>
       /\ stderr = <<Message("Key does not exist", 0, PyRepr(QueryKey))>>
       /\ raw_response = <<>>
       /\ normalized_response = <<>>
C5_Witness ==
    /\ pc = "exit"
    /\ list_dict_data = Obj(<<<<Str(KeyX), Num(1)>>>>)
    /\ query = Query("key", KeyY, 0, FALSE)
    /\ stderr = <<Message("Key does not exist", 0, <<SQ, "y", SQ>>)>>

\* C6: a run ends either with the whole formatted result on stdout (at least
\* one print), status 0 and no error, or with nothing on stdout, an error on
\* stderr and a non-zero status; also for a number, an empty result and a
\* result of several values.
RECURSIVE C6_Whole(_)
C6_Whole(data) ==
    IF data = <<>> THEN <<>>
    ELSE Printed(<<data[1]>>, compact, nulls, lines, raw) \o C6_Whole(Tail(data))
C6_AllOrNothing ==
    pc = "exit"
    => \/ /\ status = 0 /\ stderr = <<>>
          /\ stdout # <<>> /\ stdout = C6_Whole(normalized_response)
       \/ /\ status # 0 /\ stderr # <<>> /\ stdout = <<>>

\* C7: a top-level string result s that is no literal (bar) is printed as s
\* with raw and as "s", in one pair of double quotes, without raw, whatever
\* lines is.
C7_Text == Exec(query, list_dict_data).r.v
C7_ScalarString ==
    (/\ pc = "exit" /\ ~LoadFailed /\ ~query.pre
     /\ Exec(query, list_dict_data).exc = ""
     /\ Exec(query, list_dict_data).r.t = "str"
     /\ C7_Text # <<>> /\ ~Has(C7_Text, NL) /\ ~Has(C7_Text, SEP)
     /\ LiteralEval(C7_Text).exc \in {"ValueError", "SyntaxError"})
    => stdout = <<IF raw THEN C7_Text ELSE Quoted(C7_Text)>>

\* C8: in lines mode an array is printed one element per print, in order: null
\* as 'null' with nulls and as an empty line without, a bool as true or false,
\* a string raw or in double quotes, anything else JSON-encoded; 0 and 1 are
\* printed as numbers.
C8_Unit(e) ==
    IF e.t = "null" THEN (IF nulls THEN <<"n", "u", "l", "l">> ELSE <<>>)
    ELSE IF e.t = "bool" THEN (IF e.v THEN <<"t", "r", "u", "e">> ELSE <<"f", "a", "l", "s", "e">>)
    ELSE IF e.t = "str" THEN (IF raw THEN e.v ELSE Quoted(e.v))
    ELSE IF e = Num(0) THEN <<"0">>
    ELSE IF e = Num(1) THEN <<"1">>
    ELSE JsonDumps(e, IF compact THEN 0 ELSE 2)
C8_Units(a) == [k \in 1..Len(a) |-> C8_Unit(a[k])]
C8_Lines ==
    /\ (/\ pc = "exit" /\ status = 0 /\ lines
        /\ normalized_response # <<>> /\ normalized_response[1].t = "arr")
       => stdout = C8_Units(normalized_response[1].v)
    /\ (pc = "exit" /\ lines /\ OneDoc /\ query = IdQuery /\ Doc.t = "arr")
       => status = 0 /\ stdout = C8_Units(Doc.v)
C8_Witness ==
    /\ pc = "exit" /\ lines /\ nulls /\ ~raw
    /\ normalized_response = <<Arr(<<StrA, Null, Bool(TRUE), Num(42)>>)>>
    /\ stdout = <<<<DQ, "a", DQ>>, <<"n", "u", "l", "l">>, <<"t", "r", "u", "e">>,
                  <<"4", "2">>>>

\* C9: a TypeError raised by the query is reported as 'TypeError' on stderr
\* with a non-zero status when the query had written output before it, and is
\* swallowed when it had not: the run then ends as a success with an empty
\* result, status 0 and no error.
C9_TypeError ==
    (/\ pc = "exit" /\ ~LoadFailed
     /\ Exec(query, list_dict_data).exc = "TypeError")
    => IF query.pre
       THEN status # 0 /\ stderr = <<Message("TypeError", 0, <<>>)>> /\ stdout = <<>>
       ELSE status = 0 /\ stderr = <<>>

\* C10: without lines an array or object is printed as one JSON document: with
\* compact no whitespace between its tokens, without compact indented by two
\* spaces ([1,2,3] over five lines).
RECURSIVE C10_Tight(_, _, _)
C10_Tight(t, i, inString) ==
    IF i > Len(t) THEN TRUE
    ELSE IF inString
         THEN IF t[i] = BS THEN C10_Tight(t, i + 2, TRUE)
              ELSE C10_Tight(t, i + 1, t[i] # DQ)
         ELSE t[i] \notin {SP, NL} /\ C10_Tight(t, i + 1, t[i] = DQ)
C10_Pretty123 ==
    <<"[", NL, SP, SP, "1", ",", NL, SP, SP, "2", ",", NL, SP, SP, "3", NL, "]">>
C10_Document ==
    (/\ pc = "exit" /\ status = 0 /\ ~lines
     /\ normalized_response # <<>> /\ IsContainer(normalized_response[1]))
    => /\ Len(stdout) = 1
       /\ compact => C10_Tight(stdout[1], 1, FALSE)
       /\ (~compact /\ normalized_response[1] = Arr(<<Num(1), Num(2), Num(3)>>))
          => stdout[1] = C10_Pretty123

====
